---- MODULE Spec2Model ----
(***************************************************************************)
(* Model of genio_base.c: the base stackable stream endpoint (struct       *)
(* basen_data) that composes a lower layer (LL) with a filter.             *)
(*                                                                         *)
(* The endpoint's fields are the variables.  Every function of the source  *)
(* is an operator from an endpoint record to an endpoint record; an action *)
(* is one run of a handler between two points where the endpoint lock is   *)
(* free: from basen_lock to the basen_unlock that precedes a user callback *)
(* (or an unlocked filter call), or to the handler's final unlock.  What   *)
(* runs with the lock dropped (the user's callback, the filter's ll_write  *)
(* and timeout hook) is the stretch between such an action and the action  *)
(* that resumes the handler; every other thread and every user call may    *)
(* run in that stretch.                                                    *)
(*                                                                         *)
(* The LL and the filter are not in this file; they are modelled from the  *)
(* interface the endpoint uses (LL* and filter_* definitions).             *)
(***************************************************************************)
EXTENDS Integers, FiniteSets, Sequences, TLC

\* enum basen_state
BASEN_CLOSED == "BASEN_CLOSED"
BASEN_IN_LL_OPEN == "BASEN_IN_LL_OPEN"
BASEN_IN_FILTER_OPEN == "BASEN_IN_FILTER_OPEN"
BASEN_OPEN == "BASEN_OPEN"
BASEN_CLOSE_WAIT_DRAIN == "BASEN_CLOSE_WAIT_DRAIN"
BASEN_IN_FILTER_CLOSE == "BASEN_IN_FILTER_CLOSE"
BASEN_IN_LL_CLOSE == "BASEN_IN_LL_CLOSE"

basen_state == {BASEN_CLOSED, BASEN_IN_LL_OPEN, BASEN_IN_FILTER_OPEN, BASEN_OPEN,
                BASEN_CLOSE_WAIT_DRAIN, BASEN_IN_FILTER_CLOSE, BASEN_IN_LL_CLOSE}

\* errno values the source names
EBADF == 9
EBUSY == 16
EAGAIN == 11
EINPROGRESS == 115
ECOMM == 70
\* any other error an LL or a filter reports
EIO == 5

\* Bounds of the model
MaxOpens == 2
MaxFreeref == 2
MaxPending == 1
MaxThreads == 1
MaxRead == 1

VARIABLES
    \* struct basen_data
    state, refcount, freeref, open_done, close_done,
    read_enabled, in_read, xmit_enabled, tmp_xmit_enabled,
    saved_xmit_err, ll_err_occurred,
    deferred_op_pending, deferred_read, deferred_open, deferred_close,
    cbs, lock_held,
    \* the process died on a failed assert
    aborted,
    \* basen_finish_free has run
    freed,
    \* the lower layer
    ll_up, ll_read_en, ll_write_en, ll_open_pending, ll_close_pending, ll_close_data,
    \* host services; host_threads is the number of threads the host runs
    \* handlers on
    timer_armed, runner_queued, host_threads,
    \* the filter
    f_ll_pending, f_ul_pending, f_ll_read_needed,
    \* where each handler thread stands while the lock is dropped
    pc,
        \* observers: the invocations of the open_done of the last accepted open
    \* and of the close_done of the last close; whether the user has closed
    \* or freed since that open ("opening": by a close while opening;
    \* "free_closing": the last free came in BASEN_OPEN or in a closing
    \* state, "free_closing_in_place": the same after a close in place); the
    \* opens accepted; a close in BASEN_OPEN met bytes pending for the LL
    od_count, cd_count, touched, opens, drain_close

vars == <<state, refcount, freeref, open_done, close_done,
          read_enabled, in_read, xmit_enabled, tmp_xmit_enabled,
          saved_xmit_err, ll_err_occurred,
          deferred_op_pending, deferred_read, deferred_open, deferred_close,
          cbs, lock_held, aborted, freed,
          ll_up, ll_read_en, ll_write_en, ll_open_pending, ll_close_pending,
          ll_close_data, timer_armed, runner_queued, host_threads,
          f_ll_pending, f_ul_pending, f_ll_read_needed,
          pc, od_count, cd_count, touched, opens, drain_close>>

Kinds == {"rd", "wr", "tm", "run", "od", "cl"}

\* What one step does (the field ev of its result): the call made and its
\* return value, the user callback it starts (and whether the lock is held
\* at that moment), the filter/LL calls the properties are about, and the
\* changes of state it makes (trans, as pairs <<from, to>>); tcres and
\* codres are what try_connect and check_open_done returned to it (-1: not
\* called); flush: it had the filter flush its bytes for the LL; rcount is
\* the count the read data handler reports, ucount the one read_callback
\* returned to it (-1: none).
NoEv(op) == [op |-> op, ret |-> 0, cb |-> "none", cberr |-> 0, cblock |-> FALSE,
             ulw |-> FALSE, xerr |-> FALSE, llclose |-> FALSE, td |-> FALSE,
             tc |-> FALSE, tcres |-> -1, codres |-> -1, flush |-> FALSE,
             rcount |-> -1, ucount |-> -1,
             assert |-> "none",
             trans |-> {}]

\* The endpoint as a record, at the start of step op.
Cur(op) ==
    [state |-> state, refcount |-> refcount, freeref |-> freeref,
     open_done |-> open_done, close_done |-> close_done,
     read_enabled |-> read_enabled, in_read |-> in_read,
     xmit_enabled |-> xmit_enabled, tmp_xmit_enabled |-> tmp_xmit_enabled,
     saved_xmit_err |-> saved_xmit_err, ll_err_occurred |-> ll_err_occurred,
     deferred_op_pending |-> deferred_op_pending, deferred_read |-> deferred_read,
     deferred_open |-> deferred_open, deferred_close |-> deferred_close,
     cbs |-> cbs, lock_held |-> lock_held, aborted |-> aborted,
     freed |-> freed,
     ll_up |-> ll_up, ll_read_en |-> ll_read_en, ll_write_en |-> ll_write_en,
     ll_open_pending |-> ll_open_pending, ll_close_pending |-> ll_close_pending,
     ll_close_data |-> ll_close_data,
     timer_armed |-> timer_armed, runner_queued |-> runner_queued,
     f_ll_pending |-> f_ll_pending, f_ul_pending |-> f_ul_pending,
     f_ll_read_needed |-> f_ll_read_needed,
     pc |-> pc, ev |-> NoEv(op), od_count |-> od_count, cd_count |-> cd_count,
     touched |-> touched, opens |-> opens, drain_close |-> drain_close,
     susp |-> FALSE]

\* A failed assert kills the process where it stands (a build without
\* NDEBUG): nothing of the step takes effect.
Abort(r) ==
    /\ r.ev.assert # "none"
    /\ aborted' = TRUE
    /\ UNCHANGED <<state, refcount, freeref, open_done, close_done,
                        read_enabled, in_read, xmit_enabled, tmp_xmit_enabled,
                        saved_xmit_err, ll_err_occurred,
                        deferred_op_pending, deferred_read, deferred_open,
                        deferred_close, cbs, lock_held, freed,
                        ll_up, ll_read_en, ll_write_en, ll_open_pending,
                        ll_close_pending, ll_close_data, timer_armed,
                        runner_queued, host_threads, f_ll_pending, f_ul_pending,
                        f_ll_read_needed, pc, od_count, cd_count, touched,
                        opens, drain_close>>

\* The step's result becomes the next state (in a build with NDEBUG also
\* when an assert of the step failed).
Commit(r) ==
         /\ state' = r.state /\ refcount' = r.refcount /\ freeref' = r.freeref
         /\ open_done' = r.open_done /\ close_done' = r.close_done
         /\ read_enabled' = r.read_enabled /\ in_read' = r.in_read
         /\ xmit_enabled' = r.xmit_enabled
         /\ tmp_xmit_enabled' = r.tmp_xmit_enabled
         /\ saved_xmit_err' = r.saved_xmit_err
         /\ ll_err_occurred' = r.ll_err_occurred
         /\ deferred_op_pending' = r.deferred_op_pending
         /\ deferred_read' = r.deferred_read
         /\ deferred_open' = r.deferred_open
         /\ deferred_close' = r.deferred_close
         /\ cbs' = r.cbs /\ lock_held' = r.lock_held
         /\ aborted' = r.aborted /\ freed' = r.freed
         /\ ll_up' = r.ll_up /\ ll_read_en' = r.ll_read_en
         /\ ll_write_en' = r.ll_write_en
         /\ ll_open_pending' = r.ll_open_pending
         /\ ll_close_pending' = r.ll_close_pending
         /\ ll_close_data' = r.ll_close_data
         /\ timer_armed' = r.timer_armed /\ runner_queued' = r.runner_queued
         /\ UNCHANGED host_threads
         /\ f_ll_pending' = r.f_ll_pending /\ f_ul_pending' = r.f_ul_pending
         \* ll_read_needed is read in BASEN_OPEN only, and every way back to
         \* BASEN_OPEN passes filter_setup: elsewhere its value is dropped
         /\ f_ll_read_needed' = (r.f_ll_read_needed /\ r.state = BASEN_OPEN)
         /\ pc' = r.pc
         /\ od_count' = r.od_count /\ cd_count' = r.cd_count
         /\ touched' = r.touched /\ opens' = r.opens
         /\ drain_close' = r.drain_close

Apply(r) == Commit(r) \/ Abort(r)

\* The results the filter and the LL return to the calls of one step.
ConnectResults == {0, EINPROGRESS, EAGAIN, EIO}
CheckResults == {0, EIO}
CloseResults == {0, EINPROGRESS}

\* The results a step can meet: try_connect and check_open_done are called
\* only if utc, try_disconnect only if utd, ll_close only if ull;
\* check_open_done only after try_connect returned 0.
Choices(utc, utd, ull) ==
    {c \in [tc : IF utc THEN ConnectResults ELSE {0},
            cod : IF utc THEN CheckResults ELSE {0},
            td : IF utd THEN ConnectResults ELSE {0},
            llc : IF ull THEN CloseResults ELSE {0}] :
        c.tc # 0 => c.cod = 0}

----------------------------------------------------------------------------
\* unsigned int refcount: the value x stands for x mod 2^32, so -1 is
\* UINT_MAX; UGt is the unsigned comparison with a small constant.
UGt(x, n) == x < 0 \/ x > n

\* assert(): the step records the first assert that fails; whether the
\* process dies of it depends on the build (Apply).
basen_assert(s, cond, name) ==
    IF cond \/ s.ev.assert # "none" THEN s
    ELSE [s EXCEPT !.ev.assert = name]

\* ndata->state = st; the step records the change it makes.
SetState(s, st) ==
    [s EXCEPT !.state = st,
              !.ev.trans = IF s.state = st THEN @ ELSE @ \cup {<<s.state, st>>}]

basen_lock(s) == [s EXCEPT !.lock_held = TRUE]

basen_unlock(s) == [s EXCEPT !.lock_held = FALSE]

\* A user callback is invoked: the step ends here (susp), the handler goes
\* on when the callback returns.
CallUser(s, name, err) ==
    [s EXCEPT !.ev.cb = name, !.ev.cberr = err, !.ev.cblock = s.lock_held,
              !.susp = TRUE,
              !.od_count = IF name = "open_done" /\ @ < 2 THEN @ + 1 ELSE @,
              !.cd_count = IF name = "close_done" /\ @ < 2 THEN @ + 1 ELSE @]

basen_ref(s) == [s EXCEPT !.refcount = @ + 1]

basen_deref(s) ==
    LET a == basen_assert(s, UGt(s.refcount, 1), "basen_deref")
    IN [a EXCEPT !.refcount = @ - 1]

\* The last reference frees the endpoint (directly or from the timer's
\* stop-done callback).
basen_deref_and_unlock(s) ==
    LET a == basen_assert(s, UGt(s.refcount, 0), "basen_deref_and_unlock")
        b == basen_unlock([a EXCEPT !.refcount = @ - 1])
    IN IF b.refcount = 0 THEN [b EXCEPT !.freed = TRUE, !.timer_armed = FALSE]
       ELSE b

filter_ul_read_pending(s) == s.f_ul_pending

filter_ll_write_pending(s) == s.f_ll_pending > 0

filter_ll_read_needed(s) == s.f_ll_read_needed

\* setup()/cleanup() start and end the filter's per-open life: nothing is
\* buffered afterwards.
filter_setup(s) ==
    [s EXCEPT !.f_ll_pending = 0, !.f_ul_pending = FALSE, !.f_ll_read_needed = FALSE]

filter_cleanup(s) ==
    [s EXCEPT !.f_ll_pending = 0, !.f_ul_pending = FALSE, !.f_ll_read_needed = FALSE]

ll_set_read_callback_enable(s, enable) == [s EXCEPT !.ll_read_en = enable]

ll_set_write_callback_enable(s, enable) == [s EXCEPT !.ll_write_en = enable]

\* basen_set_ll_enables that computes the write interest only
basen_set_ll_enables_write_only(s) ==
    IF filter_ll_write_pending(s) \/ s.xmit_enabled \/ s.tmp_xmit_enabled
    THEN ll_set_write_callback_enable(s, TRUE) ELSE s

basen_set_ll_enables(s) ==
    LET w == IF filter_ll_write_pending(s) \/ s.xmit_enabled \/ s.tmp_xmit_enabled
             THEN ll_set_write_callback_enable(s, TRUE) ELSE s
    IN IF /\ \/ /\ \/ s.read_enabled /\ ~filter_ul_read_pending(s)
                   \/ filter_ll_read_needed(s)
                /\ s.state = BASEN_OPEN
             \/ s.state = BASEN_IN_FILTER_OPEN
             \/ s.state = BASEN_IN_FILTER_CLOSE
          /\ ~s.in_read
       THEN ll_set_read_callback_enable(w, TRUE) ELSE w

basen_sched_deferred_op(s) ==
    IF ~s.deferred_op_pending
    THEN [basen_ref([s EXCEPT !.deferred_op_pending = TRUE]) EXCEPT !.runner_queued = TRUE]
    ELSE s

\* ll_ops->close: the LL stops delivering events and gives up an open that
\* is still in progress; rv is 0 (closed at once) or EINPROGRESS.
LLClose(s, done, data, rv) ==
    [s EXCEPT !.ll_up = FALSE, !.ll_open_pending = FALSE,
              !.ll_close_pending = IF rv = EINPROGRESS THEN done ELSE @,
              !.ll_close_data = IF rv = EINPROGRESS THEN data ELSE @,
              !.ev.llclose = TRUE]

ll_close(s, done, data, c) ==
    LET a == LLClose(s, done, data, c.llc)
    IN IF c.llc = EINPROGRESS THEN basen_ref(a)
       ELSE basen_sched_deferred_op([a EXCEPT !.deferred_close = TRUE])

----------------------------------------------------------------------------
\* The state controller.  A result with susp set has dropped the lock and
\* started a user callback; the caller's thread waits for it to return.

\* basen_finish_close that calls close_done without dropping the lock
basen_finish_close_locked(s) ==
    LET a == [SetState(filter_cleanup(s), BASEN_CLOSED) EXCEPT !.drain_close = FALSE]
    IN IF a.close_done THEN CallUser(a, "close_done", 0) ELSE a

basen_finish_close(s) ==
    LET a == [SetState(filter_cleanup(s), BASEN_CLOSED) EXCEPT !.drain_close = FALSE]
    IN IF a.close_done THEN CallUser(basen_unlock(a), "close_done", 0) ELSE a

basen_finish_open(s, err) ==
    LET a == IF err # 0
             THEN filter_cleanup([SetState(s, BASEN_CLOSED) EXCEPT !.drain_close = FALSE])
             ELSE SetState(s, BASEN_OPEN)
    IN IF a.open_done THEN CallUser(basen_unlock(a), "open_done", err) ELSE a

basen_try_connect(s, c) ==
    LET a == basen_assert(s, s.state = BASEN_IN_FILTER_OPEN, "basen_try_connect")
    IN IF a.state # BASEN_IN_FILTER_OPEN THEN a
       ELSE LET b == [ll_set_read_callback_enable(
                         ll_set_write_callback_enable(a, FALSE), FALSE)
                      EXCEPT !.ev.tc = TRUE, !.ev.tcres = c.tc,
                             !.ev.codres = IF c.tc = 0 THEN c.cod ELSE @]
                err == IF c.tc = 0 THEN c.cod ELSE c.tc
            IN IF c.tc = EINPROGRESS THEN b
               ELSE IF c.tc = EAGAIN THEN [b EXCEPT !.timer_armed = TRUE]
               ELSE IF err # 0
                    THEN ll_close(SetState(b, BASEN_IN_LL_CLOSE),
                                  "basen_ll_close_on_err", err, c)
                    ELSE basen_finish_open(b, 0)

basen_try_close(s, c) ==
    LET b == [ll_set_read_callback_enable(
                 ll_set_write_callback_enable(s, FALSE), FALSE)
              EXCEPT !.ev.td = TRUE]
    IN IF c.td = EINPROGRESS THEN b
       ELSE IF c.td = EAGAIN THEN [b EXCEPT !.timer_armed = TRUE]
       ELSE ll_close(SetState(b, BASEN_IN_LL_CLOSE),
                     "basen_ll_close_done", 0, c)

\* basen_i_close that does not look at ll_err_occurred
basen_i_close_graceful(s, cd, c) ==
    LET a == [s EXCEPT !.close_done = cd, !.cd_count = 0,
                       !.drain_close = @ \/ (s.state = BASEN_OPEN
                                              /\ filter_ll_write_pending(s))]
        b == IF filter_ll_write_pending(a)
             THEN SetState(a, BASEN_CLOSE_WAIT_DRAIN)
             ELSE basen_try_close(SetState(a, BASEN_IN_FILTER_CLOSE), c)
    IN basen_set_ll_enables(b)

basen_i_close(s, cd, c) ==
    LET a == [s EXCEPT !.close_done = cd, !.cd_count = 0,
                       !.drain_close = @ \/ (s.state = BASEN_OPEN
                                              /\ filter_ll_write_pending(s))]
        b == IF a.ll_err_occurred
             THEN ll_close(SetState(a, BASEN_IN_LL_CLOSE),
                           "basen_ll_close_done", 0, c)
             ELSE IF filter_ll_write_pending(a)
             THEN SetState(a, BASEN_CLOSE_WAIT_DRAIN)
             ELSE basen_try_close(SetState(a, BASEN_IN_FILTER_CLOSE), c)
    IN basen_set_ll_enables(b)

----------------------------------------------------------------------------
\* The user API.  The user passes an open_done to open and a close_done to
\* close.

\* filter_ops->ul_write with a payload of buflen bytes: the filter takes
\* bytes and pushes what the LL accepts through basen_write_data_handler;
\* left bytes stay pending for the LL, err is the result.
filter_ul_write(s, buflen, left, err) ==
    [s EXCEPT !.f_ll_pending = left, !.ev.ulw = buflen > 0, !.ev.ret = err]

\* basen_write without the test of the state
basen_write_any_state(s, buflen, left, err) ==
    LET a == basen_lock(s)
        b == IF a.saved_xmit_err # 0
             THEN [a EXCEPT !.ev.ret = a.saved_xmit_err, !.saved_xmit_err = 0]
             ELSE filter_ul_write(a, buflen, left, err)
    IN basen_unlock(basen_set_ll_enables(b))

\* basen_write that returns the saved error without clearing it
basen_write_keeps_err(s, buflen, left, err) ==
    LET a == basen_lock(s)
        b == IF a.state # BASEN_OPEN THEN [a EXCEPT !.ev.ret = EBADF]
             ELSE IF a.saved_xmit_err # 0
             THEN [a EXCEPT !.ev.ret = a.saved_xmit_err]
             ELSE filter_ul_write(a, buflen, left, err)
    IN basen_unlock(basen_set_ll_enables(b))

basen_write(s, buflen, left, err) ==
    LET a == basen_lock(s)
        b == IF a.state # BASEN_OPEN THEN [a EXCEPT !.ev.ret = EBADF]
             ELSE IF a.saved_xmit_err # 0
             THEN [a EXCEPT !.ev.ret = a.saved_xmit_err, !.saved_xmit_err = 0]
             ELSE filter_ul_write(a, buflen, left, err)
    IN basen_unlock(basen_set_ll_enables(b))

\* ll_ops->open: rv 0 is an LL that is open at once, EINPROGRESS one whose
\* open-done callback comes later; a freshly opened LL has its read and
\* write callbacks disabled.
LLOpen(s, rv) ==
    [s EXCEPT !.ll_up = (rv = 0), !.ll_open_pending = (rv = EINPROGRESS),
              !.ll_read_en = FALSE, !.ll_write_en = FALSE]

\* setup is filter_setup's result, llo is ll_open's.
basen_open(s, setup, llo) ==
    LET a == basen_lock(s)
        f == filter_setup(a)
        g == [f EXCEPT !.in_read = FALSE, !.deferred_read = FALSE,
                       !.deferred_open = FALSE, !.deferred_close = FALSE,
                       !.read_enabled = FALSE, !.xmit_enabled = FALSE,
                       !.open_done = TRUE,
                       !.od_count = 0, !.touched = "none", !.opens = @ + 1]
        r == IF a.state # BASEN_CLOSED THEN [a EXCEPT !.ev.ret = EBUSY]
             ELSE IF setup # 0 THEN [a EXCEPT !.ev.ret = setup]
             ELSE IF llo = 0
             THEN basen_sched_deferred_op(
                      [SetState(LLOpen(g, llo), BASEN_IN_FILTER_OPEN) EXCEPT !.deferred_open = TRUE])
             ELSE IF llo = EINPROGRESS
             THEN basen_ref(SetState(LLOpen(g, llo), BASEN_IN_LL_OPEN))
             ELSE [filter_cleanup(g) EXCEPT !.ev.ret = llo, !.opens = a.opens,
                                            !.od_count = a.od_count,
                                            !.touched = a.touched]
    IN basen_unlock(r)

\* basen_close that refuses only a closed endpoint
basen_close_while_closing(s, cd, c) ==
    LET a == basen_lock(s)
        r == IF a.state = BASEN_CLOSED THEN [a EXCEPT !.ev.ret = EBUSY]
             ELSE IF a.state = BASEN_IN_FILTER_OPEN \/ a.state = BASEN_IN_LL_OPEN
             THEN basen_deref([basen_i_close(a, cd, c) EXCEPT !.touched = "yes"])
             ELSE [basen_i_close(a, cd, c) EXCEPT !.touched = "yes"]
    IN basen_unlock(r)

basen_close(s, cd, c) ==
    LET a == basen_lock(s)
        r == IF a.state # BASEN_OPEN
             THEN IF a.state = BASEN_IN_FILTER_OPEN \/ a.state = BASEN_IN_LL_OPEN
                  THEN basen_deref([basen_i_close(a, cd, c)
                                    EXCEPT !.touched = IF @ = "none" THEN "opening"
                                                       ELSE "yes"])
                  ELSE [a EXCEPT !.ev.ret = EBUSY]
             ELSE [basen_i_close(a, cd, c) EXCEPT !.touched = "yes"]
    IN basen_unlock(r)

basen_free(s, c) ==
    LET a == [basen_lock(s) EXCEPT !.freeref = @ - 1]
    IN IF a.freeref > 0 THEN basen_unlock(a)
       ELSE LET b == IF a.state = BASEN_IN_FILTER_CLOSE \/ a.state = BASEN_IN_LL_CLOSE
                     THEN [a EXCEPT !.close_done = FALSE]
                     ELSE IF a.state = BASEN_IN_FILTER_OPEN \/ a.state = BASEN_IN_LL_OPEN
                     THEN basen_deref(basen_i_close(a, FALSE, c))
                     ELSE IF a.state # BASEN_CLOSED
                     THEN basen_i_close(a, FALSE, c)
                     ELSE a
            IN basen_deref_and_unlock(
                   [b EXCEPT !.touched =
                        IF a.state \in {BASEN_OPEN, BASEN_CLOSE_WAIT_DRAIN,
                                        BASEN_IN_FILTER_CLOSE, BASEN_IN_LL_CLOSE}
                        THEN IF @ = "opening" THEN "free_closing_in_place"
                             ELSE "free_closing"
                        ELSE "yes"])

basen_do_ref(s) == basen_unlock([basen_lock(s) EXCEPT !.freeref = @ + 1])

basen_set_read_callback_enable(s, enabled) ==
    LET a == basen_lock(s)
        b == [a EXCEPT !.read_enabled = enabled]
        read_pending == filter_ul_read_pending(b)
        r == IF a.state = BASEN_CLOSED \/ a.state = BASEN_IN_FILTER_CLOSE
                \/ a.state = BASEN_IN_LL_CLOSE
             THEN a
             ELSE IF b.in_read \/ b.state = BASEN_IN_FILTER_OPEN
                     \/ b.state = BASEN_IN_LL_OPEN \/ (read_pending /\ ~enabled)
             THEN b
             ELSE IF read_pending
             THEN basen_sched_deferred_op(
                      [b EXCEPT !.in_read = TRUE, !.deferred_read = TRUE])
             ELSE basen_set_ll_enables(b)
    IN basen_unlock(r)

basen_set_write_callback_enable(s, enabled) ==
    LET a == basen_lock(s)
        r == IF a.state = BASEN_CLOSED \/ a.state = BASEN_IN_FILTER_CLOSE
                \/ a.state = BASEN_IN_LL_CLOSE
             THEN a
             ELSE IF a.xmit_enabled # enabled
             THEN basen_set_ll_enables([a EXCEPT !.xmit_enabled = enabled])
             ELSE a
    IN basen_unlock(r)

----------------------------------------------------------------------------
\* The handlers the host calls.  Each *_begin is the handler from its
\* basen_lock to the first point where it drops the lock to call out, or to
\* its end; the following operators are the rest of the handler from the
\* points where it takes the lock again.

At(s, k, label) == [s EXCEPT !.pc[k] = label]

\* basen_read_data_handler at its test of state and read_enabled, which it
\* makes without the lock; k is the handler whose filter_ll_write runs it.
basen_read_data_handler(s, k) ==
    IF s.state # BASEN_OPEN \/ ~s.read_enabled THEN [s EXCEPT !.ev.rcount = 0]
    ELSE At(s, k, "deliver")

\* basen_read_data_handler from its call of read_callback, which returns
\* ucount.
read_data_handler_call(s, k, ucount) ==
    At([CallUser(s, "read_callback", 0) EXCEPT !.ev.ucount = ucount,
                                              !.ev.rcount = ucount],
       k, "read_cb")

\* basen_ll_read, label out_finish
ll_read_finish(s) == At(basen_unlock(basen_set_ll_enables(s)), "rd", "idle")

\* basen_ll_read after basen_try_connect
ll_read_after_connect(s, c) ==
    ll_read_finish(IF s.state = BASEN_IN_FILTER_CLOSE THEN basen_try_close(s, c) ELSE s)

\* basen_ll_read after filter_ll_write has returned; ulp and rn are what the
\* filter then reports as ul_read_pending and ll_read_needed.
ll_read_after_ll_write(s, ulp, rn, c) ==
    LET a == [basen_lock(s) EXCEPT !.in_read = FALSE, !.f_ul_pending = ulp,
                                   !.f_ll_read_needed = rn]
        b == IF a.state = BASEN_IN_FILTER_OPEN THEN basen_try_connect(a, c) ELSE a
    IN IF b.susp THEN At(b, "rd", "after_connect") ELSE ll_read_after_connect(b, c)

basen_ll_read_begin(s, readerr, buflen, c) ==
    LET a == ll_set_read_callback_enable(basen_lock(s), FALSE)
        e == [a EXCEPT !.read_enabled = FALSE, !.ll_err_occurred = TRUE]
    IN IF readerr # 0
       THEN IF e.state = BASEN_IN_FILTER_OPEN \/ e.state = BASEN_IN_LL_OPEN
            THEN ll_read_finish(ll_close(SetState(e, BASEN_IN_LL_CLOSE),
                                         "basen_ll_close_on_err", ECOMM, c))
            ELSE IF e.state = BASEN_CLOSE_WAIT_DRAIN \/ e.state = BASEN_IN_FILTER_CLOSE
            THEN ll_read_finish(ll_close(SetState(e, BASEN_IN_LL_CLOSE),
                                         "basen_ll_close_done", 0, c))
            ELSE IF e.cbs
            THEN At(CallUser(basen_unlock(e), "read_callback", readerr), "rd", "err_cb")
            ELSE ll_read_finish(basen_i_close(e, FALSE, c))
       ELSE IF a.in_read THEN At(basen_unlock(a), "rd", "idle")
       ELSE IF buflen > 0
       THEN At(basen_unlock([a EXCEPT !.in_read = TRUE]), "rd", "ll_write")
       ELSE ll_read_finish(a)

\* The end of basen_ll_write_ready without ndata->tmp_xmit_enabled = false
ll_write_ready_tail_keeps_tmp(s) ==
    At(basen_unlock(basen_set_ll_enables(s)), "wr", "idle")

\* basen_ll_write_ready from ndata->tmp_xmit_enabled = false
ll_write_ready_tail(s) ==
    At(basen_unlock(basen_set_ll_enables([s EXCEPT !.tmp_xmit_enabled = FALSE])),
       "wr", "idle")

\* basen_ll_write_ready that calls write_callback whatever the filter holds
ll_write_ready_cb_while_pending(s, c) ==
    LET a == IF s.state = BASEN_IN_FILTER_CLOSE THEN basen_try_close(s, c) ELSE s
    IN IF a.state # BASEN_IN_FILTER_OPEN /\ a.xmit_enabled
       THEN At(CallUser(basen_unlock(a), "write_callback", 0), "wr", "write_cb")
       ELSE ll_write_ready_tail(a)

\* basen_ll_write_ready after basen_try_connect
ll_write_ready_after_connect(s, c) ==
    LET a == IF s.state = BASEN_IN_FILTER_CLOSE THEN basen_try_close(s, c) ELSE s
    IN IF a.state # BASEN_IN_FILTER_OPEN /\ ~filter_ll_write_pending(a) /\ a.xmit_enabled
       THEN At(CallUser(basen_unlock(a), "write_callback", 0), "wr", "write_cb")
       ELSE ll_write_ready_tail(a)

\* basen_ll_write_ready that leaves BASEN_CLOSE_WAIT_DRAIN without testing
\* filter_ll_write_pending
basen_ll_write_ready_no_drain(s, left, ferr, c) ==
    LET a == ll_set_write_callback_enable(basen_lock(s), FALSE)
        b == IF filter_ll_write_pending(a)
             THEN [a EXCEPT !.f_ll_pending = left,
                            !.saved_xmit_err = IF ferr # 0 THEN ferr ELSE @,
                            !.ev.xerr = ferr # 0, !.ev.flush = TRUE]
             ELSE a
        d == IF b.state = BASEN_CLOSE_WAIT_DRAIN
             THEN SetState(b, BASEN_IN_FILTER_CLOSE) ELSE b
        e == IF d.state = BASEN_IN_FILTER_OPEN THEN basen_try_connect(d, c) ELSE d
    IN IF e.susp THEN At(e, "wr", "after_connect")
       ELSE ll_write_ready_after_connect(e, c)

\* left is what the filter still holds for the LL after the flush, ferr the
\* flush's result.
basen_ll_write_ready_begin(s, left, ferr, c) ==
    LET a == ll_set_write_callback_enable(basen_lock(s), FALSE)
        b == IF filter_ll_write_pending(a)
             THEN [a EXCEPT !.f_ll_pending = left,
                            !.saved_xmit_err = IF ferr # 0 THEN ferr ELSE @,
                            !.ev.xerr = ferr # 0, !.ev.flush = TRUE]
             ELSE a
        d == IF b.state = BASEN_CLOSE_WAIT_DRAIN /\ ~filter_ll_write_pending(b)
             THEN SetState(b, BASEN_IN_FILTER_CLOSE) ELSE b
        e == IF d.state = BASEN_IN_FILTER_OPEN THEN basen_try_connect(d, c) ELSE d
    IN IF e.susp THEN At(e, "wr", "after_connect")
       ELSE ll_write_ready_after_connect(e, c)

\* basen_timeout from basen_set_ll_enables
timeout_tail(s) == At(basen_unlock(basen_set_ll_enables(s)), "tm", "idle")

\* hook: the filter has a timeout hook
basen_timeout_begin(s, hook, c) ==
    LET a == [basen_lock(s) EXCEPT !.timer_armed = FALSE]
    IN IF a.state = BASEN_IN_FILTER_OPEN
       THEN LET b == basen_try_connect(a, c)
            IN IF b.susp THEN At(b, "tm", "after_connect") ELSE timeout_tail(b)
       ELSE IF a.state = BASEN_IN_FILTER_CLOSE THEN timeout_tail(basen_try_close(a, c))
       ELSE IF a.state = BASEN_OPEN /\ hook THEN At(basen_unlock(a), "tm", "hook")
       ELSE timeout_tail(a)

\* basen_ll_open_done from basen_deref_and_unlock
ll_open_done_tail(s) == At(basen_deref_and_unlock(s), "od", "idle")

basen_ll_open_done_begin(s, err, c) ==
    LET a == [basen_lock(s) EXCEPT !.ll_open_pending = FALSE, !.ll_up = (err = 0)]
    IN IF err # 0
       THEN LET b == basen_finish_open(a, err)
            IN IF b.susp THEN At(b, "od", "tail") ELSE ll_open_done_tail(b)
       ELSE LET b == basen_try_connect(SetState(a, BASEN_IN_FILTER_OPEN), c)
            IN IF b.susp THEN At(b, "od", "after_connect")
               ELSE ll_open_done_tail(basen_set_ll_enables(b))

\* The LL has called the close-done callback it was given.
LLCloseCompleted(s) == [s EXCEPT !.ll_close_pending = "none", !.ll_close_data = 0]

\* basen_ll_close_done and basen_ll_close_on_err from basen_deref_and_unlock
ll_close_done_tail(s) == At(basen_deref_and_unlock(s), "cl", "idle")

basen_ll_close_done(s) ==
    LET a == basen_finish_close(basen_lock(LLCloseCompleted(s)))
    IN IF a.susp THEN At(a, "cl", "tail") ELSE ll_close_done_tail(a)

basen_ll_close_on_err(s) ==
    LET a == basen_finish_open(basen_lock(LLCloseCompleted(s)), s.ll_close_data)
    IN IF a.susp THEN At(a, "cl", "tail") ELSE ll_close_done_tail(a)

RECURSIVE deferred_op_open(_, _)
\* basen_deferred_op, label out_unlock
deferred_op_out(s) ==
    At(basen_deref_and_unlock(
           basen_set_ll_enables([s EXCEPT !.deferred_op_pending = FALSE])),
       "run", "idle")

\* basen_deferred_op at the test that loops to retry
deferred_op_loop(s, c) ==
    IF s.deferred_read \/ s.deferred_open \/ s.deferred_close
    THEN deferred_op_open(s, c) ELSE deferred_op_out(s)

\* basen_deferred_op from if (ndata->deferred_read)
deferred_op_read(s, c) ==
    IF s.deferred_read
    THEN IF s.state # BASEN_OPEN THEN deferred_op_out(s)
         ELSE At(basen_unlock([s EXCEPT !.deferred_read = FALSE]), "run", "ll_write")
    ELSE deferred_op_loop(s, c)

\* basen_deferred_op from if (ndata->deferred_close)
deferred_op_close(s, c) ==
    IF s.deferred_close
    THEN LET a == basen_finish_close([s EXCEPT !.deferred_close = FALSE])
         IN IF a.susp THEN At(a, "run", "after_close") ELSE deferred_op_read(a, c)
    ELSE deferred_op_read(s, c)

\* basen_deferred_op from label retry
deferred_op_open(s, c) ==
    IF s.deferred_open
    THEN LET a == basen_try_connect([s EXCEPT !.deferred_open = FALSE], c)
         IN IF a.susp THEN At(a, "run", "after_open") ELSE deferred_op_close(a, c)
    ELSE deferred_op_close(s, c)

basen_deferred_op_begin(s, c) ==
    deferred_op_open(basen_lock([s EXCEPT !.runner_queued = FALSE]), c)

\* basen_deferred_op after the unlocked filter_ll_write has returned
deferred_op_after_ll_write(s, ulp, rn, c) ==
    deferred_op_loop([basen_lock(s) EXCEPT !.in_read = FALSE, !.f_ul_pending = ulp,
                                           !.f_ll_read_needed = rn], c)

\* The callbacks the endpoint gives the filter.
basen_output_ready(s) == ll_set_write_callback_enable(s, TRUE)

basen_start_timer(s) ==
    LET a == basen_lock(s)
    IN basen_unlock(IF a.state = BASEN_OPEN THEN [a EXCEPT !.timer_armed = TRUE] ELSE a)

----------------------------------------------------------------------------
\* genio_alloc: a client endpoint is born closed; a server endpoint is born
\* in the filter handshake over an LL that is already open, without user
\* callbacks (the user installs them later).
Init ==
    \E is_client \in BOOLEAN :
        /\ state = IF is_client THEN BASEN_CLOSED ELSE BASEN_IN_FILTER_OPEN
        /\ refcount = 1 /\ freeref = 1
        /\ open_done = ~is_client /\ close_done = FALSE
        /\ read_enabled = FALSE /\ in_read = FALSE
        /\ xmit_enabled = FALSE /\ tmp_xmit_enabled = ~is_client
        /\ saved_xmit_err = 0 /\ ll_err_occurred = FALSE
        /\ deferred_op_pending = FALSE /\ deferred_read = FALSE
        /\ deferred_open = FALSE /\ deferred_close = FALSE
        /\ cbs = is_client /\ lock_held = FALSE
        /\ aborted = FALSE /\ freed = FALSE
        /\ ll_up = ~is_client
        /\ ll_read_en = ~is_client /\ ll_write_en = ~is_client
        /\ ll_open_pending = FALSE /\ ll_close_pending = "none" /\ ll_close_data = 0
        /\ timer_armed = FALSE /\ runner_queued = FALSE
        /\ host_threads = MaxThreads
        /\ f_ll_pending = 0 /\ f_ul_pending = FALSE /\ f_ll_read_needed = FALSE
        /\ pc = [k \in Kinds |-> "idle"]
        /\ od_count = 0 /\ cd_count = 0 /\ touched = "none"
        /\ opens = IF is_client THEN 0 ELSE 1
        /\ drain_close = FALSE

Alive == ~freed /\ ~aborted

\* The user calls the API only while holding a reference.
User == Alive /\ freeref > 0

\* A host thread is free to start a handler of kind k: no handler of that
\* kind is running, and fewer than host_threads handlers are.
CanStart(k) ==
    /\ Alive
    /\ pc[k] = "idle"
    /\ Cardinality({h \in Kinds : pc[h] # "idle"}) < host_threads

Opening == state \in {BASEN_IN_FILTER_OPEN, BASEN_IN_LL_OPEN}

\* For each step, the set of its possible results in the current state:
\* one per input and per result of the filter and LL calls it makes.

UserWriteOut ==
    IF User
    THEN {basen_write(Cur("write"), p.buflen, p.left, p.err) :
            p \in {q \in [buflen : 1..MaxPending, left : 0..MaxPending, err : {0, EIO}] :
                     /\ q.left <= f_ll_pending + q.buflen
                     /\ q.err # 0 => q.left = f_ll_pending}}
    ELSE {}

UserOpenOut ==
    IF User /\ (state = BASEN_CLOSED => opens < MaxOpens)
    THEN {basen_open(Cur("open"), p.setup, p.llo) :
            p \in {q \in [setup : {0, EIO}, llo : {0, EINPROGRESS, EIO}] :
                     q.setup # 0 => q.llo = 0}}
    ELSE {}

UserCloseOut ==
    IF User
    THEN {basen_close(Cur("close"), TRUE, c) :
            c \in Choices(FALSE, state = BASEN_OPEN \/ Opening,
                          state = BASEN_OPEN \/ Opening)}
    ELSE {}

UserFreeOut ==
    IF User
    THEN {basen_free(Cur("free"), c) :
            c \in Choices(FALSE, freeref = 1 /\ (state = BASEN_OPEN \/ Opening),
                          freeref = 1 /\ (state = BASEN_OPEN \/ Opening))}
    ELSE {}

UserRefOut ==
    IF User /\ freeref < MaxFreeref THEN {basen_do_ref(Cur("ref"))} ELSE {}

\* genio_set_callbacks: the user of a server endpoint installs its callbacks.
UserSetCallbacksOut ==
    IF User /\ ~cbs THEN {[Cur("set_callbacks") EXCEPT !.cbs = TRUE]} ELSE {}

\* The user enables callbacks only once it has installed them.
UserSetReadEnableOut ==
    IF User /\ cbs
    THEN {basen_set_read_callback_enable(Cur("set_read_enable"), enabled) :
            enabled \in BOOLEAN}
    ELSE {}

UserSetWriteEnableOut ==
    IF User /\ cbs
    THEN {basen_set_write_callback_enable(Cur("set_write_enable"), enabled) :
            enabled \in BOOLEAN}
    ELSE {}

\* The LL calls its read callback while read interest is enabled: with
\* data, or with an error.
LLReadOut ==
    IF CanStart("rd") /\ ll_up /\ ll_read_en
    THEN {basen_ll_read_begin(Cur("ll_read"), 0, 1, c) :
            c \in Choices(FALSE, FALSE, FALSE)}
         \cup {basen_ll_read_begin(Cur("ll_read"), EIO, 0, c) :
            c \in Choices(FALSE, ~cbs /\ state = BASEN_OPEN, TRUE)}
    ELSE {}

\* The filter, running unlocked inside filter_ll_write, calls the handler.
LLReadDeliverOut ==
    IF Alive /\ pc["rd"] = "ll_write"
    THEN {basen_read_data_handler(Cur("read_data_handler"), "rd")}
    ELSE {}

\* The handler, having found the endpoint open and reads enabled, calls
\* read_callback.
LLReadCallOut ==
    IF Alive /\ pc["rd"] = "deliver"
    THEN {read_data_handler_call(Cur("read_data_handler"), "rd", n) : n \in 0..MaxRead}
    ELSE {}

\* filter_ll_write returns; the filter holds undelivered payload or wants
\* more input only on an open connection.
LLReadReturnOut ==
    IF Alive /\ pc["rd"] \in {"ll_write", "read_cb"}
    THEN {ll_read_after_ll_write(Cur("ll_read"), p.ulp, p.rn, c) :
            p \in {q \in [ulp : BOOLEAN, rn : BOOLEAN] :
                     state # BASEN_OPEN => ~q.ulp /\ ~q.rn},
            c \in Choices(state = BASEN_IN_FILTER_OPEN, state = BASEN_IN_FILTER_CLOSE,
                          state \in {BASEN_IN_FILTER_OPEN, BASEN_IN_FILTER_CLOSE})}
    ELSE {}

LLReadErrReturnOut ==
    IF Alive /\ pc["rd"] = "err_cb"
    THEN {ll_read_finish(basen_lock(Cur("ll_read")))}
    ELSE {}

LLReadOpenDoneReturnOut ==
    IF Alive /\ pc["rd"] = "after_connect"
    THEN {ll_read_after_connect(basen_lock(Cur("ll_read")), c) :
            c \in Choices(FALSE, state = BASEN_IN_FILTER_CLOSE,
                          state = BASEN_IN_FILTER_CLOSE)}
    ELSE {}

\* The LL calls its write-ready callback while write interest is enabled.
LLWriteReadyOut ==
    IF CanStart("wr") /\ ll_up /\ ll_write_en
    THEN {basen_ll_write_ready_begin(Cur("ll_write_ready"), p.left, p.ferr, c) :
            p \in {q \in [left : 0..MaxPending, ferr : {0, EIO}] :
                     /\ q.left <= f_ll_pending
                     /\ f_ll_pending = 0 => q.ferr = 0},
            c \in Choices(state = BASEN_IN_FILTER_OPEN,
                          state \in {BASEN_IN_FILTER_CLOSE, BASEN_CLOSE_WAIT_DRAIN},
                          state \in {BASEN_IN_FILTER_OPEN, BASEN_IN_FILTER_CLOSE,
                                     BASEN_CLOSE_WAIT_DRAIN})}
    ELSE {}

LLWriteOpenDoneReturnOut ==
    IF Alive /\ pc["wr"] = "after_connect"
    THEN {ll_write_ready_after_connect(basen_lock(Cur("ll_write_ready")), c) :
            c \in Choices(FALSE, state = BASEN_IN_FILTER_CLOSE,
                          state = BASEN_IN_FILTER_CLOSE)}
    ELSE {}

LLWriteCbReturnOut ==
    IF Alive /\ pc["wr"] = "write_cb"
    THEN {ll_write_ready_tail(basen_lock(Cur("ll_write_ready")))}
    ELSE {}

\* The LL completes an open that was in progress.
LLOpenDoneOut ==
    IF CanStart("od") /\ ll_open_pending
    THEN {basen_ll_open_done_begin(Cur("ll_open_done"), 0, c) :
            c \in Choices(TRUE, FALSE, TRUE)}
         \cup {basen_ll_open_done_begin(Cur("ll_open_done"), EIO, c) :
            c \in Choices(FALSE, FALSE, FALSE)}
    ELSE {}

LLOpenDoneReturnOut ==
    IF Alive /\ pc["od"] \in {"tail", "after_connect"}
    THEN LET s == basen_lock(Cur("ll_open_done"))
         IN {ll_open_done_tail(IF pc["od"] = "after_connect"
                               THEN basen_set_ll_enables(s) ELSE s)}
    ELSE {}

\* The LL completes a close that was in progress.
LLCloseDoneOut ==
    IF CanStart("cl") /\ ll_close_pending # "none"
    THEN {IF ll_close_pending = "basen_ll_close_done"
          THEN basen_ll_close_done(Cur("ll_close_done"))
          ELSE basen_ll_close_on_err(Cur("ll_close_done"))}
    ELSE {}

LLCloseDoneReturnOut ==
    IF Alive /\ pc["cl"] = "tail"
    THEN {ll_close_done_tail(basen_lock(Cur("ll_close_done")))}
    ELSE {}

\* The timer expires; hook: the filter has a timeout hook.
TimeoutOut ==
    IF CanStart("tm") /\ timer_armed
    THEN {basen_timeout_begin(Cur("timeout"), hook, c) :
            hook \in IF state = BASEN_OPEN THEN BOOLEAN ELSE {FALSE},
            c \in Choices(state = BASEN_IN_FILTER_OPEN, state = BASEN_IN_FILTER_CLOSE,
                          state \in {BASEN_IN_FILTER_OPEN, BASEN_IN_FILTER_CLOSE})}
    ELSE {}

TimeoutReturnOut ==
    IF Alive /\ pc["tm"] \in {"after_connect", "hook"}
    THEN {timeout_tail(basen_lock(Cur("timeout")))}
    ELSE {}

\* The filter calls basen_start_timer from its timeout hook.
FilterStartTimerOut ==
    IF Alive /\ pc["tm"] = "hook"
    THEN {basen_start_timer(Cur("start_timer"))}
    ELSE {}

\* The filter calls basen_output_ready when it has output for the LL.
FilterOutputReadyOut ==
    IF Alive /\ ll_up /\ ~ll_write_en
    THEN {basen_output_ready(Cur("output_ready"))}
    ELSE {}

\* The host runs the deferred op.
RunnerOut ==
    IF CanStart("run") /\ runner_queued
    THEN {basen_deferred_op_begin(Cur("deferred_op"), c) :
            c \in Choices(deferred_open, FALSE, deferred_open)}
    ELSE {}

RunnerOpenDoneReturnOut ==
    IF Alive /\ pc["run"] = "after_open"
    THEN {deferred_op_close(basen_lock(Cur("deferred_op")), c) :
            c \in Choices(deferred_open, FALSE, deferred_open)}
    ELSE {}

RunnerCloseDoneReturnOut ==
    IF Alive /\ pc["run"] = "after_close"
    THEN {deferred_op_read(basen_lock(Cur("deferred_op")), c) :
            c \in Choices(deferred_open, FALSE, deferred_open)}
    ELSE {}

RunnerDeliverOut ==
    IF Alive /\ pc["run"] = "ll_write"
    THEN {basen_read_data_handler(Cur("read_data_handler"), "run")}
    ELSE {}

RunnerCallOut ==
    IF Alive /\ pc["run"] = "deliver"
    THEN {read_data_handler_call(Cur("read_data_handler"), "run", n) : n \in 0..MaxRead}
    ELSE {}

RunnerReadReturnOut ==
    IF Alive /\ pc["run"] \in {"ll_write", "read_cb"}
    THEN {deferred_op_after_ll_write(Cur("deferred_op"), p.ulp, p.rn, c) :
            p \in {q \in [ulp : BOOLEAN, rn : BOOLEAN] :
                     state # BASEN_OPEN => ~q.ulp /\ ~q.rn},
            c \in Choices(deferred_open, FALSE, deferred_open)}
    ELSE {}

\* The steps.
UserWrite == \E r \in UserWriteOut : Apply(r)
UserOpen == \E r \in UserOpenOut : Apply(r)
UserClose == \E r \in UserCloseOut : Apply(r)
UserFree == \E r \in UserFreeOut : Apply(r)
UserRef == \E r \in UserRefOut : Apply(r)
UserSetCallbacks == \E r \in UserSetCallbacksOut : Apply(r)
UserSetReadEnable == \E r \in UserSetReadEnableOut : Apply(r)
UserSetWriteEnable == \E r \in UserSetWriteEnableOut : Apply(r)
LLRead == \E r \in LLReadOut : Apply(r)
LLReadDeliver == \E r \in LLReadDeliverOut : Apply(r)
LLReadCall == \E r \in LLReadCallOut : Apply(r)
LLReadReturn == \E r \in LLReadReturnOut : Apply(r)
LLReadErrReturn == \E r \in LLReadErrReturnOut : Apply(r)
LLReadOpenDoneReturn == \E r \in LLReadOpenDoneReturnOut : Apply(r)
LLWriteReady == \E r \in LLWriteReadyOut : Apply(r)
LLWriteOpenDoneReturn == \E r \in LLWriteOpenDoneReturnOut : Apply(r)
LLWriteCbReturn == \E r \in LLWriteCbReturnOut : Apply(r)
LLOpenDone == \E r \in LLOpenDoneOut : Apply(r)
LLOpenDoneReturn == \E r \in LLOpenDoneReturnOut : Apply(r)
LLCloseDone == \E r \in LLCloseDoneOut : Apply(r)
LLCloseDoneReturn == \E r \in LLCloseDoneReturnOut : Apply(r)
Timeout == \E r \in TimeoutOut : Apply(r)
TimeoutReturn == \E r \in TimeoutReturnOut : Apply(r)
FilterStartTimer == \E r \in FilterStartTimerOut : Apply(r)
FilterOutputReady == \E r \in FilterOutputReadyOut : Apply(r)
Runner == \E r \in RunnerOut : Apply(r)
RunnerOpenDoneReturn == \E r \in RunnerOpenDoneReturnOut : Apply(r)
RunnerCloseDoneReturn == \E r \in RunnerCloseDoneReturnOut : Apply(r)
RunnerDeliver == \E r \in RunnerDeliverOut : Apply(r)
RunnerCall == \E r \in RunnerCallOut : Apply(r)
RunnerReadReturn == \E r \in RunnerReadReturnOut : Apply(r)

Next ==
    \/ UserWrite \/ UserOpen \/ UserClose \/ UserFree \/ UserRef
    \/ UserSetCallbacks \/ UserSetReadEnable \/ UserSetWriteEnable
    \/ LLRead \/ LLReadDeliver \/ LLReadCall \/ LLReadReturn \/ LLReadErrReturn
    \/ LLReadOpenDoneReturn
    \/ LLWriteReady \/ LLWriteOpenDoneReturn \/ LLWriteCbReturn
    \/ LLOpenDone \/ LLOpenDoneReturn \/ LLCloseDone \/ LLCloseDoneReturn
    \/ Timeout \/ TimeoutReturn \/ FilterStartTimer \/ FilterOutputReady
    \/ Runner \/ RunnerOpenDoneReturn \/ RunnerCloseDoneReturn
    \/ RunnerDeliver \/ RunnerCall \/ RunnerReadReturn

Spec == Init /\ [][Next]_vars

\* The endpoint on a host with one thread more, which runs a second handler
\* while a first one is in a user callback or in an unlocked filter call;
\* the endpoint lives through one connection.
InitMT ==
    \E is_client \in BOOLEAN :
        /\ state = IF is_client THEN BASEN_CLOSED ELSE BASEN_IN_FILTER_OPEN
        /\ refcount = 1 /\ freeref = 1
        /\ open_done = ~is_client /\ close_done = FALSE
        /\ read_enabled = FALSE /\ in_read = FALSE
        /\ xmit_enabled = FALSE /\ tmp_xmit_enabled = ~is_client
        /\ saved_xmit_err = 0 /\ ll_err_occurred = FALSE
        /\ deferred_op_pending = FALSE /\ deferred_read = FALSE
        /\ deferred_open = FALSE /\ deferred_close = FALSE
        /\ cbs = is_client /\ lock_held = FALSE
        /\ aborted = FALSE /\ freed = FALSE
        /\ ll_up = ~is_client
        /\ ll_read_en = ~is_client /\ ll_write_en = ~is_client
        /\ ll_open_pending = FALSE /\ ll_close_pending = "none" /\ ll_close_data = 0
        /\ timer_armed = FALSE /\ runner_queued = FALSE
        /\ host_threads = MaxThreads + 1
        /\ f_ll_pending = 0 /\ f_ul_pending = FALSE /\ f_ll_read_needed = FALSE
        /\ pc = [k \in Kinds |-> "idle"]
        /\ od_count = 0 /\ cd_count = 0 /\ touched = "none"
        /\ opens = IF is_client THEN MaxOpens - 1 ELSE MaxOpens
        /\ drain_close = FALSE

SpecMT == InitMT /\ [][Next]_vars

TypeOK ==
    /\ state \in basen_state
    /\ lock_held = FALSE
    /\ f_ll_pending \in 0..MaxPending
    /\ freeref \in 0..MaxFreeref
    /\ opens \in 0..MaxOpens

----------------------------------------------------------------------------
\* The properties.  A property about what a step does is stated over the
\* results the step can have in a reachable state.

Outcomes ==
    UNION {UserWriteOut, UserOpenOut, UserCloseOut, UserFreeOut, UserRefOut,
           UserSetCallbacksOut, UserSetReadEnableOut, UserSetWriteEnableOut,
           LLReadOut, LLReadDeliverOut, LLReadCallOut, LLReadReturnOut,
           LLReadErrReturnOut,
           LLReadOpenDoneReturnOut, LLWriteReadyOut, LLWriteOpenDoneReturnOut,
           LLWriteCbReturnOut, LLOpenDoneOut, LLOpenDoneReturnOut, LLCloseDoneOut,
           LLCloseDoneReturnOut, TimeoutOut, TimeoutReturnOut, FilterStartTimerOut,
           FilterOutputReadyOut, RunnerOut, RunnerOpenDoneReturnOut,
           RunnerCloseDoneReturnOut, RunnerDeliverOut, RunnerCallOut,
           RunnerReadReturnOut}

\* C1: in every state other than BASEN_OPEN a user write returns EBADF,
\* hands no bytes to the filter or the LL, and leaves state and
\* saved_xmit_err as they were.
C1_WriteNotOpen ==
    state # BASEN_OPEN =>
        \A r \in UserWriteOut :
            /\ r.ev.ret = EBADF
            /\ ~r.ev.ulw
            /\ r.f_ll_pending = f_ll_pending
            /\ r.state = state
            /\ r.saved_xmit_err = saved_xmit_err

\* A write is made while closing, with a flush error saved.
C1_Witness ==
    /\ state = BASEN_CLOSE_WAIT_DRAIN
    /\ saved_xmit_err # 0
    /\ \E r \in UserWriteOut : r.ev.ret = EBADF

\* C2: open in any state other than BASEN_CLOSED, and close in
\* BASEN_CLOSED, BASEN_CLOSE_WAIT_DRAIN, BASEN_IN_FILTER_CLOSE and
\* BASEN_IN_LL_CLOSE, return EBUSY and leave state, refcount, open_done and
\* close_done as they were.
C2_BusyChangesNothing ==
    /\ state # BASEN_CLOSED =>
          \A r \in UserOpenOut :
              /\ r.ev.ret = EBUSY
              /\ r.state = state /\ r.refcount = refcount
              /\ r.open_done = open_done /\ r.close_done = close_done
    /\ state \in {BASEN_CLOSED, BASEN_CLOSE_WAIT_DRAIN, BASEN_IN_FILTER_CLOSE,
                  BASEN_IN_LL_CLOSE} =>
          \A r \in UserCloseOut :
              /\ r.ev.ret = EBUSY
              /\ r.state = state /\ r.refcount = refcount
              /\ r.open_done = open_done /\ r.close_done = close_done

\* A close is refused while draining, and an open while closing.
C2_Witness ==
    /\ state = BASEN_CLOSE_WAIT_DRAIN
    /\ \E r \in UserCloseOut : r.ev.ret = EBUSY
    /\ \E r \in UserOpenOut : r.ev.ret = EBUSY

\* C3: the open_done of one accepted open and the close_done of one accepted
\* close are invoked at most once; open_done(0) is invoked with the state
\* BASEN_OPEN, open_done(err) and close_done with the state BASEN_CLOSED.
C3_CompletionOnce ==
    /\ od_count <= 1
    /\ cd_count <= 1
    /\ \A r \in Outcomes :
          /\ r.ev.cb = "open_done" /\ r.ev.cberr = 0 => r.state = BASEN_OPEN
          /\ r.ev.cb = "open_done" /\ r.ev.cberr # 0 => r.state = BASEN_CLOSED
          /\ r.ev.cb = "close_done" => r.state = BASEN_CLOSED

\* C4: an accepted open that fails while opening, with no user close or
\* free in between, ends in BASEN_CLOSED with exactly one open_done: the
\* endpoint is not closed, untouched by the user, with open_done not invoked
\* or invoked twice.
C4_OpenFailureDelivered ==
    (state = BASEN_CLOSED /\ opens > 0 /\ touched = "none") => od_count = 1

\* C5: no user callback is invoked by a thread that holds the endpoint lock.
C5_NoCallbackUnderLock ==
    /\ ~lock_held
    /\ \A r \in Outcomes : r.ev.cb # "none" => ~r.ev.cblock

\* After open_done was invoked, the LL close-done handler invokes close_done,
\* having dropped the lock.
C5_Witness ==
    /\ od_count = 1
    /\ \E r \in LLCloseDoneOut : r.ev.cb = "close_done" /\ ~r.ev.cblock

\* C6: refcount is at least 1 while the user holds a reference, while an LL
\* open or close is outstanding, or while a deferred op is scheduled.
C6_RefcountLive ==
    (freeref > 0 \/ ll_open_pending \/ ll_close_pending # "none" \/ deferred_op_pending)
        => UGt(refcount, 0) /\ ~freed

\* C7: after the free that brings freeref to 0 no user callback is started.
C7_NoCallbackAfterFree ==
    freeref = 0 => \A r \in Outcomes : r.ev.cb = "none"

\* C8 as claimed: after a close in BASEN_OPEN that met bytes pending for the
\* LL, LL close is not invoked while the filter still holds bytes for the LL.
C8_DrainBeforeClose ==
    \A r \in Outcomes : r.ev.llclose /\ r.drain_close => r.f_ll_pending = 0

\* C8 as amended: after such a close, LL close is invoked with bytes still
\* pending only when an LL read error has been reported (ll_err_occurred).
C8_DrainUnlessLLError ==
    \A r \in Outcomes :
        r.ev.llclose /\ r.drain_close /\ r.f_ll_pending > 0 => r.ll_err_occurred

\* A draining close reaches LL close, drained, without an LL error.
C8_Witness ==
    /\ drain_close /\ ~ll_err_occurred /\ state = BASEN_CLOSE_WAIT_DRAIN
    /\ \E r \in LLWriteReadyOut : r.ev.llclose /\ r.f_ll_pending = 0

\* A user write in BASEN_OPEN with an error saved returns that error, passes
\* no bytes to the filter and clears the error.
SavedErrReturnedOnce ==
    (state = BASEN_OPEN /\ saved_xmit_err # 0) =>
        \A r \in UserWriteOut :
            /\ r.ev.ret = saved_xmit_err
            /\ ~r.ev.ulw /\ r.f_ll_pending = f_ll_pending
            /\ r.saved_xmit_err = 0

\* C9 as claimed: a saved error is returned by one write and cleared, and
\* no flush records an error while an earlier one is still saved.
C9_SavedErrNeverLost ==
    /\ SavedErrReturnedOnce
    /\ \A r \in Outcomes : r.ev.xerr => saved_xmit_err = 0

\* C9 as amended: a saved error is returned by one write and cleared;
\* saved_xmit_err changes only by a flush that records an error (replacing
\* what was saved) and by the user write that returns it.
C9_SavedErrLatest ==
    /\ SavedErrReturnedOnce
    /\ \A r \in Outcomes :
          r.saved_xmit_err # saved_xmit_err =>
              \/ r.ev.xerr /\ r.saved_xmit_err # 0
              \/ /\ r.ev.op = "write" /\ state = BASEN_OPEN
                 /\ r.ev.ret = saved_xmit_err /\ r.saved_xmit_err = 0

\* A write meets a saved flush error on an open endpoint.
C9_Witness ==
    /\ state = BASEN_OPEN /\ saved_xmit_err # 0
    /\ \E r \in UserWriteOut : r.ev.ret = saved_xmit_err /\ r.saved_xmit_err = 0

\* C10: after a close accepted while opening, the state never is
\* BASEN_IN_FILTER_OPEN or BASEN_OPEN again, open_done is not invoked, and
\* close_done is invoked exactly once, on reaching BASEN_CLOSED.
C10_CloseWhileOpening ==
    touched = "opening" =>
        /\ state \notin {BASEN_IN_LL_OPEN, BASEN_IN_FILTER_OPEN, BASEN_OPEN}
        /\ od_count = 0
        /\ cd_count <= 1
        /\ state = BASEN_CLOSED => cd_count = 1

\* The transitions of the state controller's table, and a close in place
\* from an opening state into the close path.
TableTransitions ==
    {<<BASEN_CLOSED, BASEN_IN_LL_OPEN>>, <<BASEN_CLOSED, BASEN_IN_FILTER_OPEN>>,
     <<BASEN_IN_LL_OPEN, BASEN_IN_FILTER_OPEN>>, <<BASEN_IN_LL_OPEN, BASEN_CLOSED>>,
     <<BASEN_IN_FILTER_OPEN, BASEN_OPEN>>, <<BASEN_IN_FILTER_OPEN, BASEN_IN_LL_CLOSE>>,
     <<BASEN_OPEN, BASEN_CLOSE_WAIT_DRAIN>>, <<BASEN_OPEN, BASEN_IN_FILTER_CLOSE>>,
     <<BASEN_OPEN, BASEN_IN_LL_CLOSE>>,
     <<BASEN_CLOSE_WAIT_DRAIN, BASEN_IN_FILTER_CLOSE>>,
     <<BASEN_CLOSE_WAIT_DRAIN, BASEN_IN_LL_CLOSE>>,
     <<BASEN_IN_FILTER_CLOSE, BASEN_IN_LL_CLOSE>>,
     <<BASEN_IN_LL_CLOSE, BASEN_CLOSED>>}
    \cup ({BASEN_IN_LL_OPEN, BASEN_IN_FILTER_OPEN}
          \X {BASEN_CLOSE_WAIT_DRAIN, BASEN_IN_FILTER_CLOSE, BASEN_IN_LL_CLOSE})

\* C11: every change of state a step makes is a transition of the table of
\* section 4.1 or a close in place from an opening state.
C11_TableTransitionsOnly ==
    \A r \in Outcomes : r.ev.trans \subseteq TableTransitions

\* A thread is inside the user's read_callback: basen_ll_read (with data or
\* with an error) or basen_deferred_op has called it and it has not returned.
InReadCallback == pc["rd"] \in {"read_cb", "err_cb"} \/ pc["run"] = "read_cb"

\* C12: while a read_callback has not returned, no step starts another
\* read_callback.
C12_ReadCallbacksDoNotOverlap ==
    InReadCallback => \A r \in Outcomes : r.ev.cb # "read_callback"

\* Nothing is left that the LL, the timer or the runner would deliver: no
\* handler is running, no LL open or close is outstanding, the LL has no
\* enabled read or write-ready event, the timer is stopped and the runner
\* is not scheduled.
Quiet ==
    /\ \A k \in Kinds : pc[k] = "idle"
    /\ ~runner_queued /\ ~timer_armed
    /\ ~ll_open_pending /\ ll_close_pending = "none"
    /\ ~(ll_up /\ (ll_read_en \/ ll_write_en))

\* C13: an accepted close returns 0 whatever the close handshake does, and
\* once the user has closed (and neither re-opened nor dropped the last
\* reference) the endpoint does not come to rest before the state is
\* BASEN_CLOSED: with no event left to deliver, the state is BASEN_CLOSED.
C13_CloseReachesClosed ==
    /\ (state = BASEN_OPEN \/ Opening) => \A r \in UserCloseOut : r.ev.ret = 0
    /\ (freeref > 0 /\ touched # "none" /\ ~aborted /\ Quiet) => state = BASEN_CLOSED

\* C14: when the last free is called in BASEN_OPEN, BASEN_CLOSE_WAIT_DRAIN,
\* BASEN_IN_FILTER_CLOSE or BASEN_IN_LL_CLOSE, basen_finish_free runs only
\* once the state is BASEN_CLOSED.
C14_NoTeardownWhileClosing ==
    (freed /\ touched \in {"free_closing", "free_closing_in_place"})
        => state = BASEN_CLOSED

\* The states in which basen_close, and the last basen_free, start a close.
CloseStarts == state = BASEN_OPEN \/ Opening
FreeStartsClose ==
    freeref = 1 /\ (state \in {BASEN_OPEN, BASEN_CLOSE_WAIT_DRAIN} \/ Opening)

\* A close that goes straight to the LL: try_disconnect is not called, the
\* only change of state is the one to BASEN_IN_LL_CLOSE, and LL close is
\* invoked.
StraightToLLClose(r) ==
    /\ ~r.ev.td
    /\ r.ev.llclose
    /\ r.ev.trans = {<<state, BASEN_IN_LL_CLOSE>>}
    /\ r.state = BASEN_IN_LL_CLOSE

\* C15: a close started (by the user's close or by the last free) while
\* ll_err_occurred is set does not call the filter's try_disconnect and goes
\* directly to BASEN_IN_LL_CLOSE with LL close invoked, also with bytes
\* pending for the LL.
C15_LLErrorSkipsDisconnect ==
    ll_err_occurred =>
        /\ CloseStarts => \A r \in UserCloseOut : StraightToLLClose(r)
        /\ FreeStartsClose => \A r \in UserFreeOut : StraightToLLClose(r)

\* The user closes an open endpoint on which the LL has reported an error,
\* with bytes pending for the LL.
C15_Witness ==
    /\ ll_err_occurred /\ state = BASEN_OPEN /\ f_ll_pending > 0
    /\ \E r \in UserCloseOut : r.ev.llclose /\ ~r.ev.td /\ r.f_ll_pending > 0

\* C16: a step whose try_connect returned EAGAIN ends with the timer
\* running, the state BASEN_IN_FILTER_OPEN and no callback; a timer expiry in
\* BASEN_IN_FILTER_OPEN calls try_connect; the try_connect that returns 0
\* (with check_open_done 0) makes the state BASEN_OPEN and invokes
\* open_done(0), for the first and only time of that open.
C16_ConnectRetry ==
    /\ \A r \in Outcomes :
          r.ev.tcres = EAGAIN =>
              r.timer_armed /\ r.state = BASEN_IN_FILTER_OPEN /\ r.ev.cb = "none"
    /\ state = BASEN_IN_FILTER_OPEN => \A r \in TimeoutOut : r.ev.tc
    /\ \A r \in Outcomes :
          (r.ev.tcres = 0 /\ r.ev.codres = 0) =>
              /\ <<BASEN_IN_FILTER_OPEN, BASEN_OPEN>> \in r.ev.trans
              /\ open_done =>
                    r.ev.cb = "open_done" /\ r.ev.cberr = 0 /\ r.od_count = 1
    /\ state = BASEN_OPEN => od_count <= 1

\* No handler is running or waiting for a user callback to return.
AllIdle == \A k \in Kinds : pc[k] = "idle"

\* The rules of basen_set_ll_enables, read in a state.
WriteRule ==
    (f_ll_pending > 0 \/ xmit_enabled \/ tmp_xmit_enabled) => ll_write_en

ReadRule ==
    (/\ ~in_read
     /\ \/ state \in {BASEN_IN_FILTER_OPEN, BASEN_IN_FILTER_CLOSE}
        \/ /\ state = BASEN_OPEN
           /\ (read_enabled /\ ~f_ul_pending) \/ f_ll_read_needed)
    => ll_read_en

\* C17 as stated: whenever every handler has returned and the LL is
\* connected, the LL's write and read interests satisfy the rules of
\* basen_set_ll_enables.
C17_EnablesAtEveryReturn ==
    (AllIdle /\ Alive /\ ll_up) => (WriteRule /\ ReadRule)

\* C17: whenever every handler has returned, the LL is connected and no
\* deferred operation is waiting for the runner, the LL's write and read
\* interests satisfy the rules of basen_set_ll_enables.
C17_EnablesWhenNothingDeferred ==
    (AllIdle /\ Alive /\ ll_up /\ ~deferred_op_pending) => (WriteRule /\ ReadRule)

\* An open endpoint at rest whose user wants reads and whose filter holds
\* bytes for the LL: both interests are enabled.
C17_Witness ==
    /\ AllIdle /\ Alive /\ ll_up /\ ~deferred_op_pending
    /\ state = BASEN_OPEN /\ read_enabled /\ ~f_ul_pending /\ ~in_read
    /\ f_ll_pending > 0
    /\ ll_read_en /\ ll_write_en

\* The results of a write-ready handler that has come to its test for
\* write_callback: the event's first step unless it stopped in open_done,
\* and the step that follows open_done's return.
WriteReadyTested ==
    {r \in LLWriteReadyOut \cup LLWriteOpenDoneReturnOut : r.ev.cb # "open_done"}

WriteReadySteps ==
    LLWriteReadyOut \cup LLWriteOpenDoneReturnOut \cup LLWriteCbReturnOut

\* genio_alloc has made a server endpoint (it comes with its connection):
\* the state is BASEN_IN_FILTER_OPEN, tmp_xmit_enabled is set and the LL's
\* write interest is enabled.
ServerStart ==
    opens = 1 =>
        /\ state = BASEN_IN_FILTER_OPEN /\ tmp_xmit_enabled
        /\ ll_up /\ ll_write_en

\* Once basen_ll_write_ready has returned tmp_xmit_enabled is clear, and no
\* step sets it.
TmpXmitOneShot ==
    /\ \A r \in WriteReadySteps : r.pc["wr"] = "idle" => ~r.tmp_xmit_enabled
    /\ \A r \in Outcomes : r.tmp_xmit_enabled => tmp_xmit_enabled

DataHandlerTests == LLReadDeliverOut \cup RunnerDeliverOut

DataHandlerCalls == LLReadCallOut \cup RunnerCallOut

\* C20: read_callback is invoked with payload only while the state is
\* BASEN_OPEN and read_enabled is set; a read data handler that finds
\* otherwise reports 0 bytes and does not call the user; and a handler that
\* calls the user reports the count the user returned.
C20_ReadDelivery ==
    /\ \A r \in Outcomes :
          (r.ev.cb = "read_callback" /\ r.ev.cberr = 0) =>
              state = BASEN_OPEN /\ read_enabled
    /\ \A r \in DataHandlerTests :
          (state # BASEN_OPEN \/ ~read_enabled) =>
              r.ev.rcount = 0 /\ r.ev.cb = "none" /\ r.pc = pc
    /\ \A r \in DataHandlerCalls :
          r.ev.cb = "read_callback" /\ r.ev.rcount = r.ev.ucount

\* A handler is inside the filter's ll_write (basen_ll_read or
\* basen_deferred_op has called filter_ll_write and it has not returned).
InFilterLLWrite ==
    \/ pc["rd"] \in {"ll_write", "deliver", "read_cb"}
    \/ pc["run"] \in {"ll_write", "deliver", "read_cb"}

\* C21: the filter's ll_write runs with the endpoint's lock held, and while
\* it runs no other call enters the filter: a user write does not reach the
\* filter's ul_write.
C21_FilterCallsUnderLock ==
    InFilterLLWrite =>
        /\ lock_held
        /\ \A r \in UserWriteOut : ~r.ev.ulw

\* C22: the basen_deref of a close or of the last free in an opening state
\* finds refcount greater than 1 (its assert holds); refcount never goes
\* below 0, and it is not 0 while the user holds a reference.
C22_OpeningUnitReleasedOnce ==
    /\ Opening =>
          \A r \in UserCloseOut \cup UserFreeOut : r.ev.assert # "basen_deref"
    /\ refcount >= 0
    /\ (freeref > 0 /\ ~aborted) => refcount > 0

\* C23: no step calls basen_try_connect in a state other than
\* BASEN_IN_FILTER_OPEN: its assert fails in no step.
C23_TryConnectInFilterOpen ==
    \A r \in Outcomes : r.ev.assert # "basen_try_connect"

\* C24: an accepted open starts the connection with no error recorded:
\* ll_err_occurred is clear, so that a close in BASEN_OPEN without bytes
\* pending calls try_disconnect, and saved_xmit_err is 0, so that the first
\* write is not failed with it.
C24_OpenClearsErrors ==
    \A r \in UserOpenOut :
        (state = BASEN_CLOSED /\ r.state # BASEN_CLOSED) =>
            ~r.ll_err_occurred /\ r.saved_xmit_err = 0

====
